---- MODULE Spec2Model ----
(***************************************************************************)
(* Model of the ButBrain service: the metrics calculator and the anomaly   *)
(* scanner of tools.py and the two POST endpoints of main.py.              *)
(*                                                                         *)
(* Python strings are sequences of one-character strings, so a slice, a    *)
(* concatenation and len() are the sequence operations.  Floating-point    *)
(* arithmetic is modelled by exact rational arithmetic: a percent change   *)
(* is the fraction num/den, a rounded number is an integer of hundredths.  *)
(***************************************************************************)
EXTENDS Integers, Sequences, FiniteSets, TLC

(* ---- bounds of the explored environments ---- *)
MaxDays == 5
MaxSearchDays == 4
MaxSvcDays == 3
MaxRows1y == 3
MaxVol == 3
MaxExtra == 2
MaxChats == 2

(* ---- numbers written in the program ---- *)
AnomalyThreshold == 5
TopMoves == 3
SnippetLen == 300

Min(a, b) == IF a < b THEN a ELSE b
Max(a, b) == IF a > b THEN a ELSE b
Abs(a) == IF a < 0 THEN -a ELSE a

(* ---- string literals of the program ---- *)
STR_Error ==
    <<"E", "r", "r", "o", "r">>
STR_Config ==
    <<"C", "o", "n", "f", "i", "g">>
STR_ExaKeyMissing ==
    <<"E", "X", "A", "_", "A", "P", "I", "_", "K", "E", "Y", " ", "m", "i", "s", "s", "i",
       "n", "g">>
STR_SPIKE ==
    <<"S", "P", "I", "K", "E">>
STR_CRASH ==
    <<"C", "R", "A", "S", "H">>
STR_Ellipsis ==
    <<".", ".", ".">>
STR_ContentUnavailable ==
    <<"C", "o", "n", "t", "e", "n", "t", " ", "u", "n", "a", "v", "a", "i", "l", "a", "b",
       "l", "e", ".">>
STR_NoNews ==
    <<"N", "o", " ", "c", "l", "e", "a", "r", " ", "f", "i", "n", "a", "n", "c", "i", "a",
       "l", " ", "n", "e", "w", "s", " ", "f", "o", "u", "n", "d", ".">>
STR_SearchFailed ==
    <<"S", "e", "a", "r", "c", "h", " ", "f", "a", "i", "l", "e", "d", ".">>
STR_NoPriceData ==
    <<"N", "o", " ", "p", "r", "i", "c", "e", " ", "d", "a", "t", "a", " ", "f", "o", "u",
       "n", "d", ".">>
STR_DataUnavailable ==
    <<"D", "a", "t", "a", " ", "U", "n", "a", "v", "a", "i", "l", "a", "b", "l", "e">>
STR_None ==
    <<"N", "o", "n", "e">>
STR_nan ==
    <<"n", "a", "n">>
STR_success ==
    <<"s", "u", "c", "c", "e", "s", "s">>
STR_WhyDid ==
    <<"W", "h", "y", " ", "d", "i", "d", " ">>
STR_Stock ==
    <<" ", "s", "t", "o", "c", "k", " ">>
STR_On ==
    <<" ", "o", "n", " ">>
STR_FinNews ==
    <<"?", " ", "F", "i", "n", "a", "n", "c", "i", "a", "l", " ", "n", "e", "w", "s", ".">>
STR_Header1 ==
    <<"\n", " ", " ", " ", " ", " ", " ", " ", " ", "-", "-", "-", " ", "D", "E", "E", "P",
       " ", "A", "N", "A", "L", "Y", "S", "I", "S", " ", "R", "E", "P", "O", "R", "T", " ",
       "F", "O", "R", " ">>
STR_Header2 ==
    <<" ", "(">>
STR_Header3 ==
    <<")", " ", "-", "-", "-", "\n", " ", " ", " ", " ", " ", " ", " ", " ", "[", "E", "X",
       "P", "E", "R", "T", " ", "M", "E", "T", "R", "I", "C", "S", "]", "\n", " ", " ", " ",
       " ", " ", " ", " ", " ", "-", " ", "A", "n", "n", "u", "a", "l", "i", "z", "e", "d",
       " ", "V", "o", "l", "a", "t", "i", "l", "i", "t", "y", ":", " ">>
STR_Header4 ==
    <<"%", "\n", " ", " ", " ", " ", " ", " ", " ", " ", "-", " ", "E", "s", "t", ".", " ",
       "P", "u", "t", "/", "C", "a", "l", "l", " ", "R", "a", "t", "i", "o", ":", " ">>
STR_Header5 ==
    <<"\n", " ", " ", " ", " ", " ", " ", " ", " ", "-", " ", "5", "2", "-", "W", "e", "e",
       "k", " ", "R", "a", "n", "g", "e", ":", " ">>
STR_Header6 ==
    <<" ", "-", " ">>
STR_Header7 ==
    <<"\n", " ", " ", " ", " ", " ", " ", " ", " ", "\n", " ", " ", " ", " ", " ", " ", " ",
       " ", "[", "H", "I", "S", "T", "O", "R", "I", "C", "A", "L", " ", "T", "I", "M", "E",
       "L", "I", "N", "E", " ", "&", " ", "C", "A", "U", "S", "A", "L", "I", "T", "Y", "]",
       "\n", " ", " ", " ", " ", " ", " ", " ", " ">>
STR_Bullet1 ==
    <<"\n", "-", " ">>
STR_Bullet2 ==
    <<":", " ">>
STR_Bullet3 ==
    <<" ", "o", "f", " ">>
STR_Bullet4 ==
    <<".", " ", "C", "a", "u", "s", "e", ":", " ">>
STR_date ==
    <<"d", "a", "t", "e">>
STR_type ==
    <<"t", "y", "p", "e">>
STR_magnitude ==
    <<"m", "a", "g", "n", "i", "t", "u", "d", "e">>
STR_possible_cause ==
    <<"p", "o", "s", "s", "i", "b", "l", "e", "_", "c", "a", "u", "s", "e">>
STR_Recall ==
    <<".", " ", "(", "R", "e", "c", "a", "l", "l", " ", "t", "h", "e", " ", "D", "e", "e",
       "p", " ", "A", "n", "a", "l", "y", "s", "i", "s", " ", "R", "e", "p", "o", "r", "t",
       " ", "p", "r", "o", "v", "i", "d", "e", "d", " ", "i", "n", " ", "i", "n", "s", "t",
       "r", "u", "c", "t", "i", "o", "n", "s", ")">>
STR_Instr1a ==
    <<"Y", "o", "u", " ", "a", "r", "e", " ", "a", " ", "s", "p", "e", "c", "i", "a", "l",
       "i", "z", "e", "d", " ", "Q", "u", "a", "n", "t", " ", "A", "n", "a", "l", "y", "s",
       "t", " ", "f", "o", "r", " ">>
STR_Instr1b ==
    <<" ", "l", "i", "s", "t", "e", "d", " ", "o", "n", " ">>
STR_Dot ==
    <<".">>
STR_Instr2 ==
    <<"S", "T", "R", "I", "C", "T", " ", "S", "C", "O", "P", "E", ":", " ", "Y", "o", "u",
       " ", "m", "u", "s", "t", " ", "O", "N", "L", "Y", " ", "a", "n", "s", "w", "e", "r",
       " ", "q", "u", "e", "s", "t", "i", "o", "n", "s", " ", "a", "b", "o", "u", "t", " ",
       "t", "h", "i", "s", " ", "s", "p", "e", "c", "i", "f", "i", "c", " ", "s", "t", "o",
       "c", "k", ".">>
STR_Instr3 ==
    <<"R", "e", "f", "u", "s", "e", " ", "t", "o", " ", "a", "n", "s", "w", "e", "r", " ",
       "q", "u", "e", "s", "t", "i", "o", "n", "s", " ", "a", "b", "o", "u", "t", " ", "o",
       "t", "h", "e", "r", " ", "a", "s", "s", "e", "t", "s", ",", " ", "p", "o", "l", "i",
       "t", "i", "c", "s", ",", " ", "o", "r", " ", "g", "e", "n", "e", "r", "a", "l", " ",
       "c", "h", "i", "t", "-", "c", "h", "a", "t", ".">>
STR_Instr4 ==
    <<"Y", "o", "u", " ", "h", "a", "v", "e", " ", "a", "c", "c", "e", "s", "s", " ", "t",
       "o", " ", "a", " ", "'", "D", "e", "e", "p", " ", "A", "n", "a", "l", "y", "s", "i",
       "s", " ", "R", "e", "p", "o", "r", "t", "'", " ", "p", "r", "o", "v", "i", "d", "e",
       "d", " ", "i", "n", " ", "t", "h", "e", " ", "c", "o", "n", "t", "e", "x", "t", ".">>
STR_Instr5 ==
    <<"U", "s", "e", " ", "t", "h", "e", " ", "'", "D", "e", "e", "p", " ", "A", "n", "a",
       "l", "y", "s", "i", "s", " ", "R", "e", "p", "o", "r", "t", "'", " ", "t", "o", " ",
       "e", "x", "p", "l", "a", "i", "n", " ", "p", "a", "s", "t", " ", "d", "i", "p", "s",
       " ", "a", "n", "d", " ", "s", "p", "i", "k", "e", "s", ".">>
STR_Instr6 ==
    <<"Y", "o", "u", " ", "a", "r", "e", " ", "a", " ", "M", "a", "t", "h", "e", "m", "a",
       "t", "i", "c", "a", "l", " ", "E", "x", "p", "e", "r", "t", ".", " ", "I", "f", " ",
       "a", "s", "k", "e", "d", ",", " ", "c", "a", "l", "c", "u", "l", "a", "t", "e", " ",
       "t", "e", "c", "h", "n", "i", "c", "a", "l", "s", ".">>
STR_Instr7 ==
    <<"I", "f", " ", "t", "h", "e", " ", "u", "s", "e", "r", " ", "a", "s", "k", "s", " ",
       "f", "o", "r", " ", "P", "u", "t", "/", "C", "a", "l", "l", " ", "r", "a", "t", "i",
       "o", "s", " ", "o", "r", " ", "G", "r", "e", "e", "k", "s", ",", " ", "c", "h", "e",
       "c", "k", " ", "t", "h", "e", " ", "a", "v", "a", "i", "l", "a", "b", "l", "e", " ",
       "m", "e", "t", "r", "i", "c", "s", ".">>
STR_Instr8 ==
    <<"C", "O", "N", "T", "E", "X", "T", " ", "F", "R", "O", "M", " ", "S", "Y", "S", "T",
       "E", "M", ":", " ">>
STR_ModelId ==
    <<"l", "l", "a", "m", "a", "3", "-", "7", "0", "b", "-", "8", "1", "9", "2">>

(* ---- Python values and formatting ---- *)
DigitChar == <<"0", "1", "2", "3", "4", "5", "6", "7", "8", "9">>
Alphabet ==
    <<"a", "b", "c", "d", "e", "f", "g", "h", "i", "j", "k", "l", "m",
      "n", "o", "p", "q", "r", "s", "t", "u", "v", "w", "x", "y", "z">>

RECURSIVE Dec(_)
\* str(n) of a non-negative integer
Dec(n) == IF n < 10 THEN <<DigitChar[n + 1]>>
          ELSE Dec(n \div 10) \o <<DigitChar[(n % 10) + 1]>>

\* "%02d"
Pad2(n) == IF n < 10 THEN <<"0">> \o Dec(n) ELSE Dec(n)

RECURSIVE Pad4(_)
\* "%04d" ("%Y")
Pad4(s) == IF Len(s) < 4 THEN Pad4(<<"0">> \o s) ELSE s

\* values stored in the metrics dict: a float in hundredths, a str, NaN,
\* None, and the volatility, whose magnitude is not computed (it needs a
\* square root): only whether it is a number or NaN is modelled.
PyFloat(h) == [t |-> "float", v |-> h]
PyStr(s) == [t |-> "str", s |-> s]
PyNaN == [t |-> "nan"]
PyNone == [t |-> "NoneType"]
PyStdev == [t |-> "float", stdev |-> TRUE]

\* round(num / den, 2) in hundredths, num >= 0, den > 0 (ties to even)
Round2(num, den) ==
    LET q == (100 * num) \div den
        r == (100 * num) % den
    IN  IF 2 * r > den THEN q + 1
        ELSE IF 2 * r = den THEN q + (q % 2)
        ELSE q

\* str() of a float given in hundredths: 1.0, 0.5, 0.33
FloatStr(h) ==
    LET f == h % 100
    IN  Dec(h \div 100) \o <<".">>
        \o (IF f % 10 = 0 THEN Dec(f \div 10) ELSE Pad2(f))

\* what an f-string renders for a metrics value
Str(x) ==
    CASE x.t = "NoneType" -> STR_None
      [] x.t = "nan" -> STR_nan
      [] x.t = "str" -> x.s
      [] x.t = "float" /\ "v" \in DOMAIN x -> FloatStr(x.v)
      [] OTHER -> <<"s", "t", "d", "e", "v">>

\* dict.get(key): None for a missing key
Get(d, key) == IF key \in DOMAIN d THEN d[key] ELSE PyNone

(* ---- tools.py: get_expert_metrics ---- *)
RECURSIVE MaxOf(_, _)
MaxOf(rows, col) ==
    IF Len(rows) = 1 THEN rows[1][col]
    ELSE Max(rows[1][col], MaxOf(Tail(rows), col))

RECURSIVE MinOf(_, _)
MinOf(rows, col) ==
    IF Len(rows) = 1 THEN rows[1][col]
    ELSE Min(rows[1][col], MinOf(Tail(rows), col))

\* hist['returns'].std() * sqrt(252) * 100, rounded: NaN with fewer than
\* two returns (the first return is NaN, the sample deviation needs two)
Volatility(rows) == IF Len(rows) < 3 THEN PyNaN ELSE PyStdev

\* variant of Pcr: pcr starts as None instead of the sentinel
PcrUninitialised(opt) ==
    IF opt.kind = "chain" /\ opt.calls_vol > 0
    THEN PyFloat(Round2(opt.puts_vol, opt.calls_vol))
    ELSE PyNone

\* the PCR fallback block: the sentinel unless the chain is there and the
\* calls traded
Pcr(opt) ==
    IF opt.kind = "chain" /\ opt.calls_vol > 0
    THEN PyFloat(Round2(opt.puts_vol, opt.calls_vol))
    ELSE PyStr(STR_DataUnavailable)

ErrorDict(msg) == "error" :> PyStr(msg)

\* how a call ends: it returns a value or an exception leaves it
Return(v) == [raised |-> FALSE, value |-> v]
Raise(msg) == [raised |-> TRUE, message |-> msg]

\* the dict of the return statement; prices are in thousandths
MetricsDict(rows, opt) ==
    ("annualized_volatility_percent" :> Volatility(rows))
    @@ ("put_call_ratio_estimate" :> Pcr(opt))
    @@ ("current_price" :> PyFloat(Round2(rows[Len(rows)].Close, 1000)))
    @@ ("52_week_high" :> PyFloat(Round2(MaxOf(rows, "High"), 1000)))
    @@ ("52_week_low" :> PyFloat(Round2(MinOf(rows, "Low"), 1000)))

\* variant of get_expert_metrics: no outer try/except
get_expert_metrics_uncaught(hist, opt) ==
    IF hist.raises THEN Raise(hist.message)
    ELSE IF hist.rows = <<>> THEN Raise(<<"i", "n", "d", "e", "x">>)
    ELSE Return(MetricsDict(hist.rows, opt))

\* hist: what ticker.history(period="1y") does; opt: what ticker.options
\* and ticker.option_chain do.  Every exception is caught.
get_expert_metrics(hist, opt) ==
    IF hist.raises THEN Return(ErrorDict(hist.message))
    ELSE IF hist.rows = <<>> THEN Return(ErrorDict(STR_NoPriceData))
    ELSE Return(MetricsDict(hist.rows, opt))

(* ---- tools.py: perform_deep_scan ---- *)
NaN == [num |-> 0, den |-> 0]

\* hist['Close'].pct_change() * 100 as the fraction num/den; NaN on the
\* first row
Pct_Change(closes) ==
    [i \in 1..Len(closes) |->
        IF i = 1 THEN NaN
        ELSE [num |-> 100 * (closes[i] - closes[i - 1]), den |-> closes[i - 1]]]

\* comparisons with NaN are False
Gt(x, k) == x.den > 0 /\ x.num > k * x.den
Lt(x, k) == x.den > 0 /\ x.num < k * x.den
AbsGeq(x, y) == Abs(x.num) * y.den >= Abs(y.num) * x.den

\* variant of IsAnomaly: >= and <= in place of > and <
IsAnomalyInclusive(x) == (x.den > 0 /\ x.num >= AnomalyThreshold * x.den)
                         \/ (x.den > 0 /\ x.num <= (-AnomalyThreshold) * x.den)

\* (Pct_Change > 5) | (Pct_Change < -5)
IsAnomaly(x) == Gt(x, AnomalyThreshold) \/ Lt(x, -AnomalyThreshold)

\* the rows kept by the boolean mask, as the set of their positions
Anomalies(closes) ==
    {i \in 1..Len(closes) : IsAnomaly(Pct_Change(closes)[i])}

\* the orders sort_values(ascending=False) of the absolute change can
\* give: the default sort is not stable, so rows of equal magnitude come
\* in any order
SortedOrders(closes) ==
    LET S == Anomalies(closes)
        pct == Pct_Change(closes)
    IN  {s \in [1..Cardinality(S) -> S] :
            /\ \A i, j \in 1..Cardinality(S) : i # j => s[i] # s[j]
            /\ \A i, j \in 1..Cardinality(S) :
                  i < j => AbsGeq(pct[s[i]], pct[s[j]])}

\* variant of head: every row is kept
head_all(s, n) == s

\* DataFrame.head(n)
head(s, n) == SubSeq(s, 1, Min(n, Len(s)))

\* the values top_moves can take: rows (date, Pct_Change)
TopMovesOf(closes) ==
    {[k \in 1..Len(head(s, TopMoves)) |->
        [date |-> head(s, TopMoves)[k],
         Pct_Change |-> Pct_Change(closes)[head(s, TopMoves)[k]]]] :
     s \in SortedOrders(closes)}

\* the calendar date of the i-th row of the series
TradingDay(i) == [year |-> 2024, month |-> 1 + (i \div 28), day |-> 1 + (i % 28)]

\* date.strftime('%Y-%m-%d')
strftime(d) == Pad4(Dec(d.year)) \o <<"-">> \o Pad2(d.month) \o <<"-">> \o Pad2(d.day)

\* f"{x:.2f}%"
FormatPct(x) ==
    LET h == Round2(Abs(x.num), x.den)
    IN  (IF x.num < 0 THEN <<"-">> ELSE <<>>)
        \o Dec(h \div 100) \o <<".">> \o Pad2(h % 100) \o <<"%">>

\* "SPIKE" if row['Pct_Change'] > 0 else "CRASH"
MoveType(x) == IF Gt(x, 0) THEN STR_SPIKE ELSE STR_CRASH

Query(symbol, move_type, date_str) ==
    STR_WhyDid \o symbol \o STR_Stock \o move_type \o STR_On \o date_str \o STR_FinNews

\* the text a search result carries, by its length
RawText(n) == [i \in 1..n |-> Alphabet[((i - 1) % 26) + 1]]

\* variant of NewsSnippet: the slice stops one character early
NewsSnippetOffByOne(res) ==
    IF res.kind = "raise" THEN STR_SearchFailed
    ELSE IF res.kind = "empty" THEN STR_NoNews
    ELSE IF res.text # <<>>
         THEN SubSeq(res.text, 1, Min(SnippetLen - 1, Len(res.text))) \o STR_Ellipsis
         ELSE STR_ContentUnavailable

\* res: what exa.search_and_contents does (raises, no results, or a first
\* result with its text)
NewsSnippet(res) ==
    IF res.kind = "raise" THEN STR_SearchFailed
    ELSE IF res.kind = "empty" THEN STR_NoNews
    ELSE IF res.text # <<>>
         THEN SubSeq(res.text, 1, Min(SnippetLen, Len(res.text))) \o STR_Ellipsis
         ELSE STR_ContentUnavailable

ConfigEvent ==
    [date |-> STR_Error, type |-> STR_Config, possible_cause |-> STR_ExaKeyMissing]

Event(row, news_snippet) ==
    [date |-> strftime(TradingDay(row.date)),
     type |-> MoveType(row.Pct_Change),
     magnitude |-> FormatPct(row.Pct_Change),
     possible_cause |-> news_snippet]

(* ---- main.py: the report and the agent ---- *)
Header(scope, metrics) ==
    STR_Header1 \o scope.ticker \o STR_Header2 \o scope.market \o STR_Header3
    \o Str(Get(metrics, "annualized_volatility_percent")) \o STR_Header4
    \o Str(Get(metrics, "put_call_ratio_estimate")) \o STR_Header5
    \o Str(Get(metrics, "52_week_low")) \o STR_Header6
    \o Str(Get(metrics, "52_week_high")) \o STR_Header7

\* the text one loop iteration appends
Bullet(event) ==
    STR_Bullet1 \o event.date \o STR_Bullet2 \o event.type \o STR_Bullet3
    \o event.magnitude \o STR_Bullet4 \o event.possible_cause

\* str(KeyError(key))
KeyErrorStr(key) == <<"'">> \o key \o <<"'">>

BulletKeys == <<"date", "type", "magnitude", "possible_cause">>
BulletKeyNames == <<STR_date, STR_type, STR_magnitude, STR_possible_cause>>

\* the first key the f-string reads that the event does not have, 0 if none
MissingKey(event) ==
    IF \A k \in 1..Len(BulletKeys) : BulletKeys[k] \in DOMAIN event THEN 0
    ELSE CHOOSE k \in 1..Len(BulletKeys) :
            /\ BulletKeys[k] \notin DOMAIN event
            /\ \A j \in 1..(k - 1) : BulletKeys[j] \in DOMAIN event

RECURSIVE Render(_, _)
\* the for loop over history_events: the report, or the KeyError
Render(report, events) ==
    IF events = <<>> THEN Return(report)
    ELSE IF MissingKey(events[1]) # 0
         THEN Raise(KeyErrorStr(BulletKeyNames[MissingKey(events[1])]))
         ELSE Render(report \o Bullet(events[1]), Tail(events))

HTTP500(detail) == [status_code |-> 500, detail |-> detail]
HTTP200(body) == [status_code |-> 200, body |-> body]

\* the response of run_deep_analysis once both tools have returned
DeepAnalysisResponse(scope, metrics, history_events) ==
    LET r == Render(Header(scope, metrics), history_events)
    IN  IF r.raised THEN HTTP500(r.message)
        ELSE HTTP200([status |-> STR_success,
                      report_summary |-> r.value,
                      metrics |-> metrics])

Instructions(ticker, market, context) ==
    << STR_Instr1a \o ticker \o STR_Instr1b \o market \o STR_Dot,
       STR_Instr2, STR_Instr3, STR_Instr4, STR_Instr5, STR_Instr6, STR_Instr7,
       STR_Instr8 \o context >>

NoAgent == [constructed |-> FALSE]

\* the Agent object: what it is built from and the messages it has been
\* run with
NewAgent(api_key, instructions, messages) ==
    [constructed |-> TRUE,
     model |-> [id |-> STR_ModelId, api_key |-> api_key],
     tools |-> <<"YFinanceTools", "DuckDuckGo">>,
     instructions |-> instructions,
     show_tool_calls |-> TRUE,
     markdown |-> TRUE,
     messages |-> messages]

RunMessage(user_question) == user_question \o STR_Recall

(* ---- the environments ---- *)
Closes == {19, 20, 21}

Rows1y ==
    {[Close |-> 19505, High |-> 19800, Low |-> 19004],
     [Close |-> 20125, High |-> 20126, Low |-> 18999]}

STR_Timeout == <<"t", "i", "m", "e", "d", " ", "o", "u", "t">>

SeqsUpTo(S, n) == UNION {[1..k -> S] : k \in 0..n}

\* raises: an exception leaves the fetch (or a statement that uses the
\* series); message is its str()
HistRaises == [raises |-> TRUE, message |-> STR_Timeout, rows |-> <<>>]
HistRows(rows) == [raises |-> FALSE, message |-> <<>>, rows |-> rows]

\* what ticker.history can do: raise, or return a series of up to n rows
Histories(S, n) == {HistRaises} \cup {HistRows(rows) : rows \in SeqsUpTo(S, n)}

OptRaises == [kind |-> "raise", puts_vol |-> 0, calls_vol |-> 0]
OptNone == [kind |-> "none", puts_vol |-> 0, calls_vol |-> 0]
OptChain(p, c) == [kind |-> "chain", puts_vol |-> p, calls_vol |-> c]

\* what the options chain can do: raise, list no expiry, or give the volumes
OptionChains(n) ==
    {OptRaises, OptNone} \cup {OptChain(p, c) : p \in 0..n, c \in 0..n}

SearchRaises == [kind |-> "raise", text |-> <<>>]
SearchEmpty == [kind |-> "empty", text |-> <<>>]
SearchText(text) == [kind |-> "text", text |-> text]

TextLens == {0, MaxExtra, SnippetLen, SnippetLen + MaxExtra}

\* what exa.search_and_contents can do
SearchOutcomes ==
    {SearchRaises, SearchEmpty} \cup {SearchText(RawText(n)) : n \in TextLens}

FewSearchOutcomes == {SearchRaises, SearchText(RawText(MaxExtra))}

Scopes ==
    {[ticker |-> <<"A", "B">>, market |-> <<"N", "S", "E">>],
     [ticker |-> <<"X">>, market |-> <<"N", "Y", "S", "E">>]}

ChatRequests ==
    {[ticker |-> <<"A", "B">>, market |-> <<"N", "S", "E">>,
      user_question |-> <<"w", "h", "y", "?">>,
      previous_analysis_context |-> <<"r", "p", "t">>],
     [ticker |-> <<"X">>, market |-> <<"N", "Y", "S", "E">>,
      user_question |-> <<"P", "C", "R">>,
      previous_analysis_context |-> <<>>]}

(* ---- state ---- *)
VARIABLES
    exa,            \* tools.exa: "Exa" or "None"
    GROQ_API_KEY,   \* main.GROQ_API_KEY: "key" or "None"
    yf1y,           \* what ticker.history(period="1y") does
    yfOpt,          \* what the options chain does
    yf2y,           \* what ticker.history(period="2y") does
    pc,             \* where the request in progress is
    request,        \* the request body and the endpoint
    metrics,        \* run_deep_analysis: metrics
    top_moves,      \* perform_deep_scan: top_moves
    it,             \* perform_deep_scan: rows of top_moves the loop has taken
    events_log,     \* perform_deep_scan: events_log, then history_events
    netlog,         \* the calls to external services made for this request
    response,       \* the HTTP response of this request
    agent,          \* chat_with_analyst: agent
    served          \* the messages agents have been run with, oldest first

vars == <<exa, GROQ_API_KEY, yf1y, yfOpt, yf2y, pc, request, metrics, top_moves,
          it, events_log, netlog, response, agent, served>>

world == <<exa, GROQ_API_KEY, yf1y, yfOpt, yf2y>>
scan_locals == <<top_moves, it, events_log>>

NoRequest == [endpoint |-> "none"]
NoResponse == [status_code |-> 0]
NoDict == <<>>

\* variant of get_scoped_agent: one agent object lives across requests
get_scoped_agent_shared(ticker, market, context) ==
    NewAgent(GROQ_API_KEY, Instructions(ticker, market, context), served)

\* a fresh Agent on every call
get_scoped_agent(ticker, market, context) ==
    NewAgent(GROQ_API_KEY, Instructions(ticker, market, context), <<>>)

Idle ==
    /\ pc = "idle"
    /\ request = NoRequest
    /\ metrics = NoDict
    /\ top_moves = <<>>
    /\ it = 0
    /\ events_log = <<>>
    /\ netlog = <<>>
    /\ response = NoResponse
    /\ agent = NoAgent

\* the service: both endpoints, a small environment
Init ==
    /\ exa \in {"Exa", "None"}
    /\ GROQ_API_KEY \in {"key", "None"}
    /\ yf1y \in {HistRaises, HistRows(<<>>)}
              \cup {HistRows(<<r, r>>) : r \in Rows1y}
    /\ yfOpt \in {OptRaises, OptChain(1, 2)}
    /\ yf2y \in Histories(Closes, MaxSvcDays)
    /\ served = <<>>
    /\ Idle

(* ---- POST /deep_analysis ---- *)
ReceiveDeepAnalysis ==
    /\ pc = "idle"
    /\ \E scope \in Scopes :
          request' = [endpoint |-> "/deep_analysis",
                      ticker |-> scope.ticker, market |-> scope.market]
    /\ pc' = "metrics"
    /\ UNCHANGED <<world, metrics, scan_locals, netlog, response, agent, served>>

\* the external calls get_expert_metrics makes
MetricsCalls(hist) ==
    <<[api |-> "yf.history", period |-> "1y"]>>
    \o (IF hist.raises \/ hist.rows = <<>> THEN <<>>
        ELSE <<[api |-> "yf.options"]>>)

\* metrics = tools.get_expert_metrics(scope.ticker)
CallGetExpertMetrics ==
    /\ pc = "metrics"
    /\ netlog' = netlog \o MetricsCalls(yf1y)
    /\ LET r == get_expert_metrics(yf1y, yfOpt)
       IN  IF r.raised
           THEN /\ response' = HTTP500(r.message)
                /\ pc' = "done"
                /\ UNCHANGED metrics
           ELSE /\ metrics' = r.value
                /\ pc' = "scan"
                /\ UNCHANGED response
    /\ UNCHANGED <<world, request, scan_locals, agent, served>>

\* variant of ScanBegin: the price fetch comes before the exa check
ScanBeginFetchFirst ==
    /\ pc = "scan"
    /\ netlog' = Append(netlog, [api |-> "yf.history", period |-> "2y"])
    /\ IF exa = "None"
       THEN /\ events_log' = <<ConfigEvent>>
            /\ pc' = "assemble"
            /\ UNCHANGED <<top_moves, it>>
       ELSE IF yf2y.raises \/ yf2y.rows = <<>>
            THEN /\ events_log' = <<>>
                 /\ pc' = "assemble"
                 /\ UNCHANGED <<top_moves, it>>
            ELSE /\ top_moves' \in TopMovesOf(yf2y.rows)
                 /\ it' = 0
                 /\ events_log' = <<>>
                 /\ pc' = "search"
    /\ UNCHANGED <<world, request, metrics, response, agent, served>>

\* perform_deep_scan up to the loop: the exa check, the fetch, the ranking
ScanBegin ==
    /\ pc = "scan"
    /\ IF exa = "None"
       THEN /\ events_log' = <<ConfigEvent>>
            /\ pc' = "assemble"
            /\ UNCHANGED <<top_moves, it, netlog>>
       ELSE /\ netlog' = Append(netlog, [api |-> "yf.history", period |-> "2y"])
            /\ IF yf2y.raises \/ yf2y.rows = <<>>
               THEN /\ events_log' = <<>>
                    /\ pc' = "assemble"
                    /\ UNCHANGED <<top_moves, it>>
               ELSE /\ top_moves' \in TopMovesOf(yf2y.rows)
                    /\ it' = 0
                    /\ events_log' = <<>>
                    /\ pc' = "search"
    /\ UNCHANGED <<world, request, metrics, response, agent, served>>

\* variant of ScanSearch: a day whose search raises gets no event
ScanSearchDropping(outcomes) ==
    /\ pc = "search"
    /\ it < Len(top_moves)
    /\ LET row == top_moves[it + 1]
           query == Query(request.ticker, MoveType(row.Pct_Change),
                          strftime(TradingDay(row.date)))
       IN  \E res \in outcomes :
              /\ netlog' = Append(netlog, [api |-> "exa.search_and_contents",
                                           query |-> query, result |-> res])
              /\ events_log' = IF res.kind = "raise" THEN events_log
                               ELSE Append(events_log, Event(row, NewsSnippet(res)))
    /\ it' = it + 1
    /\ UNCHANGED <<world, pc, request, metrics, top_moves, response, agent, served>>

\* one iteration of the loop over top_moves
ScanSearch(outcomes) ==
    /\ pc = "search"
    /\ it < Len(top_moves)
    /\ LET row == top_moves[it + 1]
           query == Query(request.ticker, MoveType(row.Pct_Change),
                          strftime(TradingDay(row.date)))
       IN  \E res \in outcomes :
              /\ netlog' = Append(netlog, [api |-> "exa.search_and_contents",
                                           query |-> query, result |-> res])
              /\ events_log' = Append(events_log, Event(row, NewsSnippet(res)))
    /\ it' = it + 1
    /\ UNCHANGED <<world, pc, request, metrics, top_moves, response, agent, served>>

\* return events_log
ScanReturn ==
    /\ pc = "search"
    /\ it = Len(top_moves)
    /\ pc' = "assemble"
    /\ UNCHANGED <<world, request, metrics, scan_locals, netlog, response, agent,
                   served>>

\* the report loop and the return of run_deep_analysis
AssembleReport ==
    /\ pc = "assemble"
    /\ response' = DeepAnalysisResponse(request, metrics, events_log)
    /\ pc' = "done"
    /\ UNCHANGED <<world, request, metrics, scan_locals, netlog, agent, served>>

(* ---- POST /chat ---- *)
ReceiveChat ==
    /\ pc = "idle"
    /\ Len(served) < MaxChats
    /\ \E req \in ChatRequests :
          request' = [endpoint |-> "/chat", ticker |-> req.ticker,
                      market |-> req.market, user_question |-> req.user_question,
                      previous_analysis_context |-> req.previous_analysis_context]
    /\ pc' = "agent"
    /\ UNCHANGED <<world, metrics, scan_locals, netlog, response, agent, served>>

\* agent = get_scoped_agent(...): the constructors of the agent library
\* return or raise
CallGetScopedAgent ==
    /\ pc = "agent"
    /\ \E ok \in BOOLEAN :
          IF ok
          THEN /\ agent' = get_scoped_agent(request.ticker, request.market,
                                            request.previous_analysis_context)
               /\ pc' = "run"
               /\ UNCHANGED response
          ELSE /\ response' = HTTP500(STR_Timeout)
               /\ pc' = "done"
               /\ UNCHANGED agent
    /\ UNCHANGED <<world, request, metrics, scan_locals, netlog, served>>

\* response = agent.run(...): the library call returns a reply or raises
CallAgentRun ==
    /\ pc = "run"
    /\ LET message == RunMessage(request.user_question)
       IN  /\ agent' = [agent EXCEPT !.messages = Append(@, message)]
           /\ served' = Append(served, message)
           /\ \E ok \in BOOLEAN :
                 /\ netlog' = Append(netlog, [api |-> "agent.run",
                                              message |-> message, raised |-> ~ok])
                 /\ response' = IF ok THEN HTTP200([response |-> <<"o", "k">>])
                                 ELSE HTTP500(STR_Timeout)
    /\ pc' = "done"
    /\ UNCHANGED <<world, request, metrics, scan_locals>>

\* the response is sent; nothing of the request is kept
Respond ==
    /\ pc = "done"
    /\ pc' = "idle"
    /\ request' = NoRequest
    /\ metrics' = NoDict
    /\ top_moves' = <<>>
    /\ it' = 0
    /\ events_log' = <<>>
    /\ netlog' = <<>>
    /\ response' = NoResponse
    /\ agent' = NoAgent
    /\ UNCHANGED <<world, served>>

Next ==
    \/ ReceiveDeepAnalysis
    \/ CallGetExpertMetrics
    \/ ScanBegin
    \/ ScanSearch(FewSearchOutcomes)
    \/ ScanReturn
    \/ AssembleReport
    \/ ReceiveChat
    \/ CallGetScopedAgent
    \/ CallAgentRun
    \/ Respond

Spec == Init /\ [][Next]_vars

(* ---- perform_deep_scan called on its own ---- *)
ScanCall(days) ==
    /\ exa \in {"Exa", "None"}
    /\ GROQ_API_KEY = "key"
    /\ yf1y = HistRows(<<>>)
    /\ yfOpt = OptNone
    /\ yf2y \in Histories(Closes, days)
    /\ served = <<>>
    /\ pc = "scan"
    /\ \E scope \in Scopes :
          request = [endpoint |-> "perform_deep_scan",
                     ticker |-> scope.ticker, market |-> scope.market]
    /\ metrics = NoDict
    /\ top_moves = <<>>
    /\ it = 0
    /\ events_log = <<>>
    /\ netlog = <<>>
    /\ response = NoResponse
    /\ agent = NoAgent

\* long series, few search outcomes: the ranking
InitRank == ScanCall(MaxDays)

NextRank ==
    \/ ScanBegin
    \/ ScanSearch(FewSearchOutcomes)
    \/ ScanReturn

SpecRank == InitRank /\ [][NextRank]_vars

\* shorter series, every search outcome: the annotation loop
InitSearch == ScanCall(MaxSearchDays)

NextSearch ==
    \/ ScanBegin
    \/ ScanSearch(SearchOutcomes)
    \/ ScanReturn

SpecSearch == InitSearch /\ [][NextSearch]_vars

(* ---- get_expert_metrics called on every price and options outcome ---- *)
InitMetrics ==
    /\ exa = "Exa"
    /\ GROQ_API_KEY = "key"
    /\ yf1y \in Histories(Rows1y, MaxRows1y)
    /\ yfOpt \in OptionChains(MaxVol)
    /\ yf2y = HistRows(<<>>)
    /\ served = <<>>
    /\ pc = "metrics"
    /\ \E scope \in Scopes :
          request = [endpoint |-> "/deep_analysis",
                     ticker |-> scope.ticker, market |-> scope.market]
    /\ metrics = NoDict
    /\ top_moves = <<>>
    /\ it = 0
    /\ events_log = <<>>
    /\ netlog = <<>>
    /\ response = NoResponse
    /\ agent = NoAgent

NextMetrics == CallGetExpertMetrics

SpecMetrics == InitMetrics /\ [][NextMetrics]_vars
(* ---- what the claims are stated over ---- *)
\* perform_deep_scan has returned (its result is events_log)
ScanReturned == pc = "assemble"

\* perform_deep_scan went through its loop: configured search, a fetched
\* series with rows
Scanned == ScanReturned /\ exa = "Exa" /\ ~yf2y.raises /\ yf2y.rows # <<>>

\* the row of the fetched series an event's date names
EventDay(e) ==
    CHOOSE i \in 1..Len(yf2y.rows) : e.date = strftime(TradingDay(i))

\* close-to-close change of row i, times the previous close (no division)
Change100(i) == 100 * (yf2y.rows[i] - yf2y.rows[i - 1])
Prev(i) == yf2y.rows[i - 1]

\* row i moved by strictly more than 5 percent
Exceeds(i) ==
    /\ i > 1
    /\ \/ Change100(i) > 5 * Prev(i)
       \/ Change100(i) < (-5) * Prev(i)

\* |change of row i| compared with |change of row j|
AbsCmp(i, j) == Abs(Change100(i)) * Prev(j) - Abs(Change100(j)) * Prev(i)

Qualifying == {i \in 1..Len(yf2y.rows) : Exceeds(i)}

IsSearch(c) == c.api = "exa.search_and_contents"
Searches == SelectSeq(netlog, IsSearch)

IsRun(c) == c.api = "agent.run"
Runs == SelectSeq(netlog, IsRun)

(* ---- C1 ---- *)
\* C1 as stated: perform_deep_scan returns at most 3 events, in strictly
\* descending order of absolute percent change (no two consecutive events
\* of equal magnitude).
C1_StrictlyDescending ==
    Scanned =>
        /\ Len(events_log) <= 3
        /\ \A k \in 1..(Len(events_log) - 1) :
              AbsCmp(EventDay(events_log[k]), EventDay(events_log[k + 1])) > 0

\* C1 amended: perform_deep_scan returns at most 3 events (Min(3, number of
\* qualifying days) of them), in non-increasing order of absolute percent
\* change regardless of sign, and no day left out moved by more than a day
\* returned; days of equal magnitude may follow one another.
C1_TopThreeDescending ==
    /\ ScanReturned => Len(events_log) <= 3
    /\ Scanned =>
        /\ Len(events_log) = Min(3, Cardinality(Qualifying))
        /\ \A k \in 1..(Len(events_log) - 1) :
              AbsCmp(EventDay(events_log[k]), EventDay(events_log[k + 1])) >= 0
        /\ \A k \in 1..Len(events_log) :
              \A j \in Qualifying \ {EventDay(events_log[m]) : m \in 1..Len(events_log)} :
                 AbsCmp(EventDay(events_log[k]), j) >= 0

\* C1 witness: more than three days qualify, three events are returned,
\* the first two of equal magnitude and the last of opposite sign to the
\* first
C1_Witness ==
    /\ Scanned
    /\ Cardinality(Qualifying) > 3
    /\ Len(events_log) = 3
    /\ AbsCmp(EventDay(events_log[1]), EventDay(events_log[2])) = 0
    /\ events_log[1].type = STR_SPIKE
    /\ events_log[3].type = STR_CRASH

C3_UnconfiguredNoFetch ==
    (ScanReturned /\ exa = "None") =>
        /\ events_log = <<[date |-> STR_Error, type |-> STR_Config,
                           possible_cause |-> STR_ExaKeyMissing]>>
        /\ \A k \in 1..Len(netlog) :
              /\ netlog[k].api # "exa.search_and_contents"
              /\ netlog[k].api # "yf.history"

\* C3 witness: the scan has returned with the handle None
C3_Witness == ScanReturned /\ exa = "None" /\ Len(events_log) = 1

(* ---- C7 ---- *)
\* the query the program sends for an event
QueryFor(e) ==
    STR_WhyDid \o request.ticker \o STR_Stock \o e.type \o STR_On \o e.date
    \o STR_FinNews

\* C7: one search query per retained day, one at a time and in rank order;
\* as many events as queries, in the same order; a search that raises or
\* returns no results only puts a fixed placeholder in that event's
\* possible_cause: the event is kept and the later days are still searched.
C7_OneSearchPerDay ==
    exa = "Exa" =>
        /\ Len(Searches) = Len(events_log)
        /\ Len(events_log) <= 3
        /\ pc = "search" => Len(events_log) = it
        /\ Scanned => Len(events_log) = Min(3, Cardinality(Qualifying))
        /\ \A k \in 1..Len(events_log) :
              /\ Searches[k].query = QueryFor(events_log[k])
              /\ events_log[k].date = strftime(TradingDay(top_moves[k].date))
              /\ Exceeds(top_moves[k].date)
              /\ events_log[k].type =
                    (IF Change100(top_moves[k].date) > 0 THEN STR_SPIKE ELSE STR_CRASH)
              /\ Searches[k].result.kind = "raise" =>
                    events_log[k].possible_cause = STR_SearchFailed
              /\ Searches[k].result.kind = "empty" =>
                    events_log[k].possible_cause = STR_NoNews
        /\ \A k \in 1..(Len(events_log) - 1) :
              AbsCmp(top_moves[k].date, top_moves[k + 1].date) >= 0

\* C7 witness: three days retained; the first search raised, the second
\* returned no results, the third returned text; three events returned
C7_Witness ==
    /\ Scanned
    /\ Len(events_log) = 3
    /\ Len(Searches) = 3
    /\ Searches[1].result.kind = "raise"
    /\ Searches[2].result.kind = "empty"
    /\ Searches[3].result.kind = "text"
    /\ Len(Searches[3].result.text) > SnippetLen

(* ---- C8 ---- *)
\* C8 as stated: for an event whose search returned text, possible_cause
\* is exactly the first 300 characters of the text: never longer than 300
\* and equal to the text when the text has at most 300 characters.
C8_First300 ==
    \A k \in 1..Min(Len(Searches), Len(events_log)) :
        LET t == Searches[k].result.text
            cause == events_log[k].possible_cause
        IN  (Searches[k].result.kind = "text" /\ t # <<>>) =>
                /\ Len(cause) <= 300
                /\ Len(cause) = Min(300, Len(t))
                /\ \A i \in 1..Len(cause) : cause[i] = t[i]
                /\ Len(t) <= 300 => cause = t

\* C8 amended: for an event whose search returned non-empty text,
\* possible_cause is the first 300 characters of the text followed by
\* "...": at most 303 characters, and the whole text followed by "..."
\* when the text has at most 300 characters.
C8_First300Ellipsis ==
    \A k \in 1..Min(Len(Searches), Len(events_log)) :
        LET t == Searches[k].result.text
            cause == events_log[k].possible_cause
            n == Min(300, Len(t))
        IN  (Searches[k].result.kind = "text" /\ t # <<>>) =>
                /\ Len(cause) = n + 3
                /\ Len(cause) <= 303
                /\ \A i \in 1..n : cause[i] = t[i]
                /\ \A i \in (n + 1)..(n + 3) : cause[i] = "."
                /\ Len(t) <= 300 => cause = t \o <<".", ".", ".">>

\* C8 witness: one event from a text of exactly 300 characters, one from a
\* longer text and one from a shorter text
C8_Witness ==
    /\ Scanned
    /\ Len(events_log) = 3
    /\ Len(Searches) = 3
    /\ Searches[1].result.kind = "text"
    /\ Searches[2].result.kind = "text"
    /\ Searches[3].result.kind = "text"
    /\ Len(Searches[1].result.text) = 300
    /\ Len(Searches[2].result.text) > 300
    /\ Len(Searches[3].result.text) \in 1..299

(* ---- C4 ---- *)
\* C4 as stated: with GROQ_API_KEY absent, a POST /chat request is rejected
\* with HTTP 500 before agent.run or any other network call is attempted.
C4_RejectedBeforeRun ==
    (GROQ_API_KEY = "None" /\ request.endpoint = "/chat") =>
        /\ netlog = <<>>
        /\ pc = "done" => response.status_code = 500

(* ---- C5 ---- *)
\* the metrics call of the /deep_analysis request in progress has been made
MetricsCalled ==
    request.endpoint = "/deep_analysis" /\ pc \notin {"idle", "metrics"}

\* C5: get_expert_metrics never raises: on a series with zero rows it
\* returns {error: ...}, on a failing price fetch {error: <message>}; and a
\* /deep_analysis request whose metrics are an error and whose anomaly list
\* is empty completes with status success, not HTTP 500.
C5_MetricsNeverRaise ==
    MetricsCalled =>
        /\ DOMAIN metrics # {}
        /\ (~yf1y.raises /\ yf1y.rows = <<>>) =>
              (DOMAIN metrics = {"error"} /\ metrics["error"].t = "str")
        /\ yf1y.raises =>
              (DOMAIN metrics = {"error"} /\ metrics["error"] = PyStr(yf1y.message))
        /\ (pc = "done" /\ "error" \in DOMAIN metrics /\ events_log = <<>>) =>
              /\ response.status_code = 200
              /\ response.body.status = STR_success
              /\ response.body.metrics = metrics

\* C5 witness: both price series are empty and the request has completed
C5_Witness ==
    /\ MetricsCalled
    /\ pc = "done"
    /\ ~yf1y.raises /\ yf1y.rows = <<>>
    /\ ~yf2y.raises /\ yf2y.rows = <<>>
    /\ events_log = <<>>
    /\ response.status_code = 200

(* ---- C6 ---- *)
\* get_expert_metrics has returned to run_deep_analysis
MetricsReturned == pc = "scan"

PcrOk(v) ==
    IF yfOpt.kind = "chain" /\ yfOpt.calls_vol > 0
    THEN /\ v.t = "float"
         /\ v.v >= 0
         \* v.v hundredths is the nearest hundredth to puts / calls
         /\ 2 * Abs(v.v * yfOpt.calls_vol - 100 * yfOpt.puts_vol) <= yfOpt.calls_vol
    ELSE v = PyStr(STR_DataUnavailable)

\* C6 as stated: every result get_expert_metrics returns has the put/call
\* ratio field, a non-negative number or the unavailable sentinel.
C6_PcrInEveryResult ==
    MetricsCalled =>
        /\ "put_call_ratio_estimate" \in DOMAIN metrics
        /\ PcrOk(metrics["put_call_ratio_estimate"])

\* C6 amended: every result of get_expert_metrics that is not an error
\* result has the put/call ratio field: puts / calls rounded to 2 decimals
\* (non-negative) when the chain is there and the call volume is positive,
\* the unavailable sentinel otherwise; a failing or missing options chain
\* gives the sentinel and neither an error result nor an aborted request.
\* (The error result, {error: ...}, has no put/call ratio field.)
C6_PcrInEveryMetricsResult ==
    MetricsCalled =>
        /\ "error" \notin DOMAIN metrics =>
              /\ "put_call_ratio_estimate" \in DOMAIN metrics
              /\ PcrOk(metrics["put_call_ratio_estimate"])
        /\ (~yf1y.raises /\ yf1y.rows # <<>>) =>
              /\ "error" \notin DOMAIN metrics
              /\ MetricsReturned => response = NoResponse
        /\ "error" \in DOMAIN metrics => (yf1y.raises \/ yf1y.rows = <<>>)

\* C6 witness: prices were fetched, the options chain raised, the metrics
\* are returned with the sentinel
C6_Witness ==
    /\ MetricsReturned
    /\ yfOpt.kind = "raise"
    /\ ~yf1y.raises /\ yf1y.rows # <<>>
    /\ "error" \notin DOMAIN metrics

(* ---- C9 ---- *)
RECURSIVE Bullets(_)
\* the bullets of the events, in order
Bullets(events) ==
    IF events = <<>> THEN <<>>
    ELSE STR_Bullet1 \o events[1].date \o STR_Bullet2 \o events[1].type
         \o STR_Bullet3 \o events[1].magnitude \o STR_Bullet4
         \o events[1].possible_cause \o Bullets(Tail(events))

\* s ends with t
EndsWith(s, t) ==
    Len(t) <= Len(s) /\ SubSeq(s, Len(s) - Len(t) + 1, Len(s)) = t

\* C9 as stated: whatever list perform_deep_scan returns, the synthetic
\* configuration-error event included, run_deep_analysis completes with
\* status success and one bullet per event, in the scanner's order.
C9_EveryScanOutputRendered ==
    (request.endpoint = "/deep_analysis" /\ pc = "done") =>
        /\ response.status_code = 200
        /\ response.body.status = STR_success
        /\ EndsWith(response.body.report_summary, Bullets(events_log))

(* ---- C10 ---- *)
\* C10: a POST /chat request builds one fresh agent and calls agent.run at
\* most once; a failing construction or a failing run ends the request with
\* HTTP 500 and no further run; the agent has been run with this request's
\* message only, and nothing of the request is left once it is answered.
C10_FreshAgentNoRetry ==
    /\ Len(Runs) <= 1
    /\ pc = "run" => (agent.constructed /\ agent.messages = <<>> /\ Runs = <<>>)
    /\ agent.constructed =>
          /\ request.endpoint = "/chat"
          /\ agent.messages = [k \in 1..Len(Runs) |-> request.user_question \o STR_Recall]
          /\ agent.instructions[8] = STR_Instr8 \o request.previous_analysis_context
    /\ (request.endpoint = "/chat" /\ pc = "done") =>
          /\ ~agent.constructed => (Runs = <<>> /\ response.status_code = 500)
          /\ (Runs # <<>> /\ Runs[1].raised) => response.status_code = 500
          /\ (Runs # <<>> /\ ~Runs[1].raised) => response.status_code = 200
    /\ pc = "idle" => (agent = NoAgent /\ netlog = <<>> /\ request = NoRequest
                       /\ response = NoResponse)

\* C10 witness: the second chat request has failed in agent.run, after a
\* first one was served
C10_Witness ==
    /\ request.endpoint = "/chat"
    /\ pc = "done"
    /\ Len(served) = 2
    /\ Len(Runs) = 1
    /\ Runs[1].raised
    /\ response.status_code = 500
====
